---- MODULE Spec2Model ----
(***************************************************************************)
(* Person/Address/Employee/Paycheck API (src/main.py): four in-memory      *)
(* stores and the handlers FastAPI routes to them.  Every handler is a     *)
(* pure operator of the current stores and its request that yields the     *)
(* HTTP status, the response body and the store it leaves; one action per  *)
(* route applies it.                                                       *)
(***************************************************************************)
EXTENDS Integers, Sequences, FiniteSets, TLC

VARIABLES
    family,      \* the resource family the client session talks to
    persons,     \* src/main.py:30
    addresses,   \* src/main.py:31
    employees,   \* src/main.py:32
    paychecks,   \* src/main.py:33
    uuids,       \* how many times uuid4() has been called
    last,        \* the last request and its response
    created,     \* history: per store, the ids in the order they were created
    deleted,     \* history: per store, the ids whose DELETE returned 204
    threads      \* threadpool workers: the handler each runs and where it is

vars == <<family, persons, addresses, employees, paychecks, uuids, last,
          created, deleted, threads>>

----------------------------------------------------------------------------
(* Bounds *)

\* UUIDs a client makes up on its own (path parameters, address ids).
NumClientIds == 2
\* Calls of uuid4() in one run.
MaxUuids == 3
\* Records a store holds at most.
MaxRecords == 2

\* Threadpool workers handling requests at the same time
NumThreads == 2

----------------------------------------------------------------------------
(* Values *)

\* Python's None; no field value a client sends equals it.
None == "None"

\* The n-th UUID the client made up, and the n-th UUID uuid4() returned.
\* uuid4() never returns a UUID that was seen before.
ClientId(n) == "c" \o ToString(n)
Uuid(n) == "u" \o ToString(n)
ClientIds == {ClientId(n) : n \in 1..NumClientIds}
IssuedIds == {Uuid(n) : n \in 1..uuids}
\* uuid4() numbering the records alive, so that a freed number comes back
NewUuid_reused == Uuid(Len(employees) + Len(paychecks) + Len(persons) + 1)
\* uuid4(): a UUID never seen before
NewUuid == Uuid(uuids + 1)
\* What a client can put where a UUID is expected.
KnownIds == ClientIds \cup IssuedIds
\* The same for the stores whose keys all come from uuid4(): one made-up UUID
\* stands for every UUID the server never issued.
PathIds == {ClientId(1)} \cup IssuedIds

----------------------------------------------------------------------------
(* Python dict: insertion-ordered, as a sequence of entries [k, v] *)

Entry(k, v) == [k |-> k, v |-> v]
EmptyDict == << >>
\* list(d.keys())
Keys(d) == [i \in 1..Len(d) |-> d[i].k]
KeySet(d) == {d[i].k : i \in 1..Len(d)}
\* k in d
Has(d, k) == k \in KeySet(d)
\* d[k]
GetItem(d, k) == d[CHOOSE i \in 1..Len(d) : d[i].k = k].v
\* d[k] = v, moving an existing key to the end (what del + insert would do)
SetItem_reinsert(d, k, v) ==
    Append(SelectSeq(d, LAMBDA e : e.k # k), Entry(k, v))
\* d[k] = v: an existing key keeps its position, a new key goes last
SetItem(d, k, v) ==
    IF Has(d, k)
    THEN [i \in 1..Len(d) |-> IF d[i].k = k THEN Entry(k, v) ELSE d[i]]
    ELSE Append(d, Entry(k, v))
\* del d[k]
DelItem(d, k) == SelectSeq(d, LAMBDA e : e.k # k)
\* list(d.values())
Values(d) == [i \in 1..Len(d) |-> d[i].v]

\* a.update(b) on two plain dicts of fields
DictUpdate(a, b) ==
    [f \in DOMAIN a \cup DOMAIN b |-> IF f \in DOMAIN b THEN b[f] ELSE a[f]]

\* u.model_dump(exclude_unset=True) of an update model u = [fields_set, data]:
\* only the fields the request body named, an explicit null included.
model_dump_exclude_unset(u) == [f \in u.fields_set |-> u.data[f]]

\* An update model from the JSON body `body` (a function on the named fields)
UpdateModel(fields, body) ==
    [fields_set |-> DOMAIN body,
     data |-> [f \in fields |-> IF f \in DOMAIN body THEN body[f] ELSE None]]

\* Responses
Response(status, body, db) == [status |-> status, body |-> body, db |-> db]
NoBody == << >>

----------------------------------------------------------------------------
(* Addresses *)

AddressFields == {"id", "street", "city", "state", "postal_code", "country"}
AddressUpdateFields == AddressFields \ {"id"}

\* AddressRead(**d)
AddressRead(d) == [f \in AddressFields |-> d[f]]

AddrNewYork ==
    [street |-> "1 Main St", city |-> "New York", state |-> "NY",
     postal_code |-> "10027", country |-> "USA"]
AddrParis ==
    [street |-> "2 Rue Cler", city |-> "Paris", state |-> "IDF",
     postal_code |-> "75007", country |-> "France"]
\* Bodies of POST /addresses
AddressCreates ==
    {DictUpdate(a, [id |-> i]) : a \in {AddrNewYork, AddrParis}, i \in ClientIds}
\* Bodies of PATCH /addresses/{id}
AddressUpdates ==
    {UpdateModel(AddressUpdateFields, b) :
        b \in {<< >>,
               [city |-> "Paris"],
               [street |-> "2 Rue Cler", postal_code |-> "75007"],
               [state |-> "IDF", country |-> "France"]}}
\* Query strings of GET /addresses
NoAddressFilter ==
    [street |-> None, city |-> None, state |-> None, postal_code |-> None,
     country |-> None]
AddressFilters ==
    {DictUpdate(NoAddressFilter, q) :
        q \in {<< >>,
               [street |-> "1 Main St"],
               [city |-> "Paris"],
               [state |-> "NY"],
               [postal_code |-> "75007"],
               [country |-> "USA"],
               [city |-> "Paris", country |-> "USA"],
               [city |-> "Lyon"]}}

create_address_overwrite(address) ==
    LET addr_read == AddressRead(address)
    IN  Response(201, <<addr_read>>, SetItem(addresses, addr_read.id, addr_read))

create_address(address) ==
    IF Has(addresses, address.id)
    THEN Response(400, NoBody, addresses)
    ELSE LET addr_read == AddressRead(address)
         IN  Response(201, <<addr_read>>,
                      SetItem(addresses, addr_read.id, addr_read))

\* [a for a in results if a.<field> == <value>], skipped when value is None
FilterEq(results, field, value) ==
    IF value # None
    THEN SelectSeq(results, LAMBDA a : a[field] = value)
    ELSE results

\* list_addresses without the filter on country
list_addresses_no_country(q) ==
    LET r0 == Values(addresses)
        r1 == FilterEq(r0, "street", q.street)
        r2 == FilterEq(r1, "city", q.city)
        r3 == FilterEq(r2, "state", q.state)
        r4 == FilterEq(r3, "postal_code", q.postal_code)
    IN  Response(200, r4, addresses)

list_addresses(q) ==
    LET r0 == Values(addresses)
        r1 == FilterEq(r0, "street", q.street)
        r2 == FilterEq(r1, "city", q.city)
        r3 == FilterEq(r2, "state", q.state)
        r4 == FilterEq(r3, "postal_code", q.postal_code)
        r5 == FilterEq(r4, "country", q.country)
    IN  Response(200, r5, addresses)

get_address(address_id) ==
    IF ~Has(addresses, address_id)
    THEN Response(404, NoBody, addresses)
    ELSE Response(200, <<GetItem(addresses, address_id)>>, addresses)

update_address(address_id, update) ==
    IF ~Has(addresses, address_id)
    THEN Response(404, NoBody, addresses)
    ELSE LET stored == DictUpdate(GetItem(addresses, address_id),
                                  model_dump_exclude_unset(update))
             db == SetItem(addresses, address_id, AddressRead(stored))
         IN  Response(200, <<GetItem(db, address_id)>>, db)

----------------------------------------------------------------------------
(* Persons *)

PersonFields ==
    {"id", "uni", "first_name", "last_name", "email", "phone", "birth_date",
     "addresses"}
PersonUpdateFields == PersonFields \ {"id"}

\* PersonRead(**d): the id of the body when it carries one, else a fresh one
PersonRead(d, new_id) ==
    [f \in PersonFields |-> IF f = "id" /\ "id" \notin DOMAIN d
                            THEN new_id ELSE d[f]]

\* str(d) of a datetime.date <<year, month, day>>: YYYY-MM-DD
Pad2(n) == IF n < 10 THEN "0" \o ToString(n) ELSE ToString(n)
DateStr(d) == ToString(d[1]) \o "-" \o Pad2(d[2]) \o "-" \o Pad2(d[3])

Ann ==
    [uni |-> "al1234", first_name |-> "Ann", last_name |-> "Lee",
     email |-> "ann@example.com", phone |-> "+1-212-555-0100",
     birth_date |-> <<1999, 4, 2>>, addresses |-> <<AddrNewYork>>]
Raj ==
    [uni |-> "rr5678", first_name |-> "Raj", last_name |-> "Rao",
     email |-> "raj@example.com", phone |-> "+33-1-55-55-01-00",
     birth_date |-> <<2000, 12, 25>>, addresses |-> <<AddrParis, AddrNewYork>>]
\* Bodies of POST /persons, with and without an id
PersonCreates ==
    {Ann, Raj} \cup
    {DictUpdate(p, [id |-> i]) : p \in {Ann, Raj}, i \in ClientIds}
\* Bodies of PATCH /persons/{id}
PersonUpdates ==
    {UpdateModel(PersonUpdateFields, b) :
        b \in {<< >>,
               [last_name |-> "Rao", email |-> "raj@example.com"],
               [addresses |-> <<AddrParis, AddrNewYork>>]}}
\* Query strings of GET /persons
NoPersonFilter ==
    [uni |-> None, first_name |-> None, last_name |-> None, email |-> None,
     phone |-> None, birth_date |-> None, city |-> None, country |-> None]
PersonFilters ==
    {DictUpdate(NoPersonFilter, q) :
        q \in {<< >>,
               [uni |-> "al1234"],
               [first_name |-> "Raj"],
               [last_name |-> "Rao"],
               [email |-> "ann@example.com"],
               [phone |-> "+1-212-555-0100"],
               [birth_date |-> "1999-04-02"],
               [birth_date |-> "1999-4-2"],
               [city |-> "Paris"],
               [country |-> "USA"],
               [city |-> "Paris", country |-> "USA"],
               [last_name |-> "Rao", city |-> "New York"]}}

create_person(person, new_id) ==
    LET person_read == PersonRead(person, new_id)
    IN  Response(201, <<person_read>>,
                 SetItem(persons, person_read.id, person_read))

\* [p for p in results if str(p.birth_date) == birth_date]
FilterDate(results, value) ==
    IF value # None
    THEN SelectSeq(results, LAMBDA p : DateStr(p.birth_date) = value)
    ELSE results

\* [p for p in results if any(addr.<field> == <value> for addr in p.addresses)]
FilterAnyAddress(results, field, value) ==
    IF value # None
    THEN SelectSeq(results,
                   LAMBDA p : \E i \in 1..Len(p.addresses) :
                                  p.addresses[i][field] = value)
    ELSE results

list_persons(q) ==
    LET r0 == Values(persons)
        r1 == FilterEq(r0, "uni", q.uni)
        r2 == FilterEq(r1, "first_name", q.first_name)
        r3 == FilterEq(r2, "last_name", q.last_name)
        r4 == FilterEq(r3, "email", q.email)
        r5 == FilterEq(r4, "phone", q.phone)
        r6 == FilterDate(r5, q.birth_date)
        r7 == FilterAnyAddress(r6, "city", q.city)
        r8 == FilterAnyAddress(r7, "country", q.country)
    IN  Response(200, r8, persons)

get_person(person_id) ==
    IF ~Has(persons, person_id)
    THEN Response(404, NoBody, persons)
    ELSE Response(200, <<GetItem(persons, person_id)>>, persons)

\* update_person adding the addresses of the body to the stored ones
update_person_append_addresses(person_id, update) ==
    IF ~Has(persons, person_id)
    THEN Response(404, NoBody, persons)
    ELSE LET old == GetItem(persons, person_id)
             patch == model_dump_exclude_unset(update)
             merged == DictUpdate(old, patch)
             stored == IF "addresses" \in DOMAIN patch
                       THEN [merged EXCEPT
                               !.addresses = old.addresses \o patch.addresses]
                       ELSE merged
             db == SetItem(persons, person_id, PersonRead(stored, None))
         IN  Response(200, <<GetItem(db, person_id)>>, db)

update_person(person_id, update) ==
    IF ~Has(persons, person_id)
    THEN Response(404, NoBody, persons)
    ELSE LET stored == DictUpdate(GetItem(persons, person_id),
                                  model_dump_exclude_unset(update))
             db == SetItem(persons, person_id, PersonRead(stored, None))
         IN  Response(200, <<GetItem(db, person_id)>>, db)

----------------------------------------------------------------------------
(* Employees *)

EmployeeFields == {"id", "name", "email", "position"}
EmployeeUpdateFields == {"name", "email", "position"}

\* Whether EmployeeRead(**d) validates: id a UUID, the three others str.
EmployeeReadValid(d) ==
    /\ DOMAIN d = EmployeeFields
    /\ \A f \in EmployeeFields : d[f] # None
\* EmployeeRead(**d)
EmployeeRead(d) == [f \in EmployeeFields |-> d[f]]

Alice ==
    [name |-> "Alice", email |-> "alice@example.com", position |-> "Engineer"]
Bob ==
    [name |-> "Bob", email |-> "bob@example.com", position |-> "Manager"]
\* Bodies of POST /employees
EmployeeCreates == {Alice, Bob}
\* Bodies of PUT /employees/{id}
EmployeeUpdates ==
    {UpdateModel(EmployeeUpdateFields, b) :
        b \in {<< >>,
               [position |-> "Manager"],
               [name |-> "Bob", email |-> "bob@example.com"],
               [name |-> None]}}

list_employees == Response(200, Values(employees), employees)

\* create_employee storing the record under a key that is not its id
create_employee_keyed_by_name(payload, new_id) ==
    LET emp == EmployeeRead(DictUpdate(payload, [id |-> new_id]))
    IN  Response(201, <<emp>>, SetItem(employees, emp.name, emp))

create_employee(payload, new_id) ==
    LET emp == EmployeeRead(DictUpdate(payload, [id |-> new_id]))
    IN  Response(201, <<emp>>, SetItem(employees, new_id, emp))

\* get_employee answering with the first record of the store
get_employee_first(employee_id) ==
    IF ~Has(employees, employee_id)
    THEN Response(404, NoBody, employees)
    ELSE Response(200, <<employees[1].v>>, employees)

get_employee(employee_id) ==
    IF ~Has(employees, employee_id)
    THEN Response(404, NoBody, employees)
    ELSE Response(200, <<GetItem(employees, employee_id)>>, employees)

update_employee(employee_id, payload) ==
    IF ~Has(employees, employee_id)
    THEN Response(404, NoBody, employees)
    ELSE LET stored == DictUpdate(GetItem(employees, employee_id),
                                  model_dump_exclude_unset(payload))
         IN  IF ~EmployeeReadValid(stored)
             THEN \* pydantic.ValidationError leaves the handler: 500
                  Response(500, NoBody, employees)
             ELSE LET db == SetItem(employees, employee_id,
                                    EmployeeRead(stored))
                  IN  Response(200, <<GetItem(db, employee_id)>>, db)

\* delete_employee emptying the store
delete_employee_clear(employee_id) ==
    IF ~Has(employees, employee_id)
    THEN Response(404, NoBody, employees)
    ELSE Response(204, NoBody, EmptyDict)

delete_employee(employee_id) ==
    IF ~Has(employees, employee_id)
    THEN Response(404, NoBody, employees)
    ELSE Response(204, NoBody, DelItem(employees, employee_id))

----------------------------------------------------------------------------
(* Paychecks *)

PaycheckFields == {"id", "employee_id", "amount", "date_issued"}
PaycheckUpdateFields == {"employee_id", "amount", "date_issued"}

\* Whether PaycheckRead(**d) validates: two UUIDs, a float and a date.
PaycheckReadValid(d) ==
    /\ DOMAIN d = PaycheckFields
    /\ \A f \in PaycheckFields : d[f] # None
\* PaycheckRead(**d)
PaycheckRead(d) == [f \in PaycheckFields |-> d[f]]

\* Bodies of POST /paychecks
PaycheckCreates ==
    {[employee_id |-> e, amount |-> "1000.0", date_issued |-> "2024-01-31"] :
        e \in PathIds}
\* Bodies of PUT /paychecks/{id}
PaycheckUpdates ==
    {UpdateModel(PaycheckUpdateFields, b) :
        b \in {<< >>,
               [amount |-> "1250.5"],
               [employee_id |-> ClientId(1), date_issued |-> "2024-02-29"],
               [amount |-> None]}}

list_paychecks == Response(200, Values(paychecks), paychecks)

\* create_paycheck without the check of employee_id
create_paycheck_unchecked(payload, new_id) ==
    LET pc == PaycheckRead(DictUpdate(payload, [id |-> new_id]))
    IN  Response(201, <<pc>>, SetItem(paychecks, new_id, pc))

create_paycheck(payload, new_id) ==
    IF ~Has(employees, payload.employee_id)
    THEN Response(400, NoBody, paychecks)
    ELSE LET pc == PaycheckRead(DictUpdate(payload, [id |-> new_id]))
         IN  Response(201, <<pc>>, SetItem(paychecks, new_id, pc))

get_paycheck(paycheck_id) ==
    IF ~Has(paychecks, paycheck_id)
    THEN Response(404, NoBody, paychecks)
    ELSE Response(200, <<GetItem(paychecks, paycheck_id)>>, paychecks)

\* update_paycheck storing the body under an id the store does not hold
update_paycheck_upsert(paycheck_id, payload) ==
    LET stored == DictUpdate(IF Has(paychecks, paycheck_id)
                             THEN GetItem(paychecks, paycheck_id)
                             ELSE [id |-> paycheck_id],
                             model_dump_exclude_unset(payload))
    IN  IF ~PaycheckReadValid(stored)
        THEN Response(500, NoBody, paychecks)
        ELSE LET db == SetItem(paychecks, paycheck_id, PaycheckRead(stored))
             IN  Response(200, <<GetItem(db, paycheck_id)>>, db)

update_paycheck(paycheck_id, payload) ==
    IF ~Has(paychecks, paycheck_id)
    THEN Response(404, NoBody, paychecks)
    ELSE LET stored == DictUpdate(GetItem(paychecks, paycheck_id),
                                  model_dump_exclude_unset(payload))
         IN  IF ~PaycheckReadValid(stored)
             THEN \* pydantic.ValidationError leaves the handler: 500
                  Response(500, NoBody, paychecks)
             ELSE LET db == SetItem(paychecks, paycheck_id,
                                    PaycheckRead(stored))
                  IN  Response(200, <<GetItem(db, paycheck_id)>>, db)

delete_paycheck(paycheck_id) ==
    IF ~Has(paychecks, paycheck_id)
    THEN Response(404, NoBody, paychecks)
    ELSE Response(204, NoBody, DelItem(paychecks, paycheck_id))

----------------------------------------------------------------------------
(* Health and root *)

\* Health(**d): the six fields make_health passes, kept as given.
Health(d) == d

\* What socket.gethostbyname(socket.gethostname()) gives: the host's address,
\* or "unknown" when the lookup raises.
IpAddresses == {"10.0.0.7", "unknown"}
\* datetime.utcnow().isoformat() + "Z"; the clock is read as one instant.
Timestamp == "2025-01-15T10:20:30.120000Z"

Echoes == {None, "hello"}
PathEchoes == {"ping"}

\* make_health with echo and path_echo exchanged
make_health_swapped(echo, path_echo, ip) ==
    Health([status |-> 200, status_message |-> "OK", timestamp |-> Timestamp,
            ip_address |-> ip, echo |-> path_echo, path_echo |-> echo])

make_health(echo, path_echo, ip) ==
    Health([status |-> 200, status_message |-> "OK", timestamp |-> Timestamp,
            ip_address |-> ip, echo |-> echo, path_echo |-> path_echo])

get_health_no_path(echo, ip) ==
    Response(200, <<make_health(echo, None, ip)>>, EmptyDict)

get_health_with_path(path_echo, echo, ip) ==
    Response(200, <<make_health(echo, path_echo, ip)>>, EmptyDict)

root ==
    Response(200, <<[message |-> "Welcome to the Person/Address/Employee/Paycheck API. See /docs for OpenAPI UI."]>>,
             EmptyDict)

----------------------------------------------------------------------------
(* Requests *)

Request(op, id, body) == [op |-> op, id |-> id, body |-> body]
\* What `last` holds after request `req` got response `res`.
Exchange(req, res) ==
    [op |-> req.op, id |-> req.id, req |-> req.body,
     status |-> res.status, body |-> res.body]

\* The runs explored keep every store within MaxRecords records.
Fits(db) == Len(db) <= MaxRecords

\* The ids of `db` that are new in it, in order, appended to the history.
Created(hist, old, db) ==
    hist \o SelectSeq(Keys(db), LAMBDA k : ~Has(old, k))

CreateAddress ==
    \E address \in AddressCreates :
        LET res == create_address(address) IN
        /\ family = "addresses"
        /\ Fits(res.db)
        /\ addresses' = res.db
        /\ last' = Exchange(Request("create_address", address.id, address), res)
        /\ created' = [created EXCEPT
                         !.addresses = Created(@, addresses, res.db)]
        /\ UNCHANGED <<family, persons, employees, paychecks, uuids, deleted,
                       threads>>

ListAddresses ==
    \E q \in AddressFilters :
        LET res == list_addresses(q) IN
        /\ family = "addresses"
        /\ addresses' = res.db
        /\ last' = Exchange(Request("list_addresses", None, q), res)
        /\ UNCHANGED <<family, persons, employees, paychecks, uuids, created,
                       deleted,
                       threads>>

GetAddress ==
    \E address_id \in KnownIds :
        LET res == get_address(address_id) IN
        /\ family = "addresses"
        /\ addresses' = res.db
        /\ last' = Exchange(Request("get_address", address_id, None), res)
        /\ UNCHANGED <<family, persons, employees, paychecks, uuids, created,
                       deleted,
                       threads>>

UpdateAddress ==
    \E address_id \in KnownIds, update \in AddressUpdates :
        LET res == update_address(address_id, update) IN
        /\ family = "addresses"
        /\ addresses' = res.db
        /\ last' = Exchange(Request("update_address", address_id, update), res)
        /\ UNCHANGED <<family, persons, employees, paychecks, uuids, created,
                       deleted,
                       threads>>

CreatePerson ==
    \E person \in PersonCreates :
        LET \* PersonRead's default factory runs only for a body without id
            called == "id" \notin DOMAIN person
            res == create_person(person, NewUuid) IN
        /\ family = "persons"
        /\ called => uuids < MaxUuids
        /\ Fits(res.db)
        /\ uuids' = IF called THEN uuids + 1 ELSE uuids
        /\ persons' = res.db
        /\ last' = Exchange(Request("create_person", None, person), res)
        /\ created' = [created EXCEPT !.persons = Created(@, persons, res.db)]
        /\ UNCHANGED <<family, addresses, employees, paychecks, deleted,
                       threads>>

ListPersons ==
    \E q \in PersonFilters :
        LET res == list_persons(q) IN
        /\ family = "persons"
        /\ persons' = res.db
        /\ last' = Exchange(Request("list_persons", None, q), res)
        /\ UNCHANGED <<family, addresses, employees, paychecks, uuids, created,
                       deleted,
                       threads>>

GetPerson ==
    \E person_id \in KnownIds :
        LET res == get_person(person_id) IN
        /\ family = "persons"
        /\ persons' = res.db
        /\ last' = Exchange(Request("get_person", person_id, None), res)
        /\ UNCHANGED <<family, addresses, employees, paychecks, uuids, created,
                       deleted,
                       threads>>

UpdatePerson ==
    \E person_id \in KnownIds, update \in PersonUpdates :
        LET res == update_person(person_id, update) IN
        /\ family = "persons"
        /\ persons' = res.db
        /\ last' = Exchange(Request("update_person", person_id, update), res)
        /\ UNCHANGED <<family, addresses, employees, paychecks, uuids, created,
                       deleted,
                       threads>>

ListEmployees ==
    LET res == list_employees IN
    /\ family = "employees"
    /\ employees' = res.db
    /\ last' = Exchange(Request("list_employees", None, None), res)
    /\ UNCHANGED <<family, persons, addresses, paychecks, uuids, created,
                   deleted,
                       threads>>

CreateEmployee ==
    \E payload \in EmployeeCreates :
        LET res == create_employee(payload, NewUuid) IN
        /\ family \in {"employees", "paychecks"}
        /\ uuids < MaxUuids
        /\ Fits(res.db)
        /\ uuids' = uuids + 1
        /\ employees' = res.db
        /\ last' = Exchange(Request("create_employee", None, payload), res)
        /\ created' = [created EXCEPT
                         !.employees = Created(@, employees, res.db)]
        /\ UNCHANGED <<family, persons, addresses, paychecks, deleted,
                       threads>>

GetEmployee ==
    \E employee_id \in PathIds :
        LET res == get_employee(employee_id) IN
        /\ family = "employees"
        /\ employees' = res.db
        /\ last' = Exchange(Request("get_employee", employee_id, None), res)
        /\ UNCHANGED <<family, persons, addresses, paychecks, uuids, created,
                       deleted,
                       threads>>

UpdateEmployee ==
    \E employee_id \in PathIds, payload \in EmployeeUpdates :
        LET res == update_employee(employee_id, payload) IN
        /\ family = "employees"
        /\ employees' = res.db
        /\ last' = Exchange(Request("update_employee", employee_id, payload),
                            res)
        /\ UNCHANGED <<family, persons, addresses, paychecks, uuids, created,
                       deleted,
                       threads>>

\* The creation history of a store after DELETE of `id` answered `res`, and
\* the ids deleted from it so far.
Removed(hist, id, res) ==
    IF res.status = 204 THEN SelectSeq(hist, LAMBDA k : k # id) ELSE hist
Deleted(hist, id, res) ==
    IF res.status = 204 THEN hist \cup {id} ELSE hist

DeleteEmployee ==
    \E employee_id \in PathIds :
        LET res == delete_employee(employee_id) IN
        /\ family \in {"employees", "paychecks"}
        /\ employees' = res.db
        /\ last' = Exchange(Request("delete_employee", employee_id, None), res)
        /\ created' = [created EXCEPT
                         !.employees = Removed(@, employee_id, res)]
        /\ deleted' = [deleted EXCEPT
                         !.employees = Deleted(@, employee_id, res)]
        /\ UNCHANGED <<family, persons, addresses, paychecks, uuids,
                       threads>>

ListPaychecks ==
    LET res == list_paychecks IN
    /\ family = "paychecks"
    /\ paychecks' = res.db
    /\ last' = Exchange(Request("list_paychecks", None, None), res)
    /\ UNCHANGED <<family, persons, addresses, employees, uuids, created,
                   deleted,
                       threads>>

CreatePaycheck ==
    \E payload \in PaycheckCreates :
        LET \* uuid4() is called only once the employee is known to exist
            called == Has(employees, payload.employee_id)
            res == create_paycheck(payload, NewUuid) IN
        /\ family = "paychecks"
        /\ called => uuids < MaxUuids
        /\ Fits(res.db)
        /\ uuids' = IF called THEN uuids + 1 ELSE uuids
        /\ paychecks' = res.db
        /\ last' = Exchange(Request("create_paycheck", None, payload), res)
        /\ created' = [created EXCEPT
                         !.paychecks = Created(@, paychecks, res.db)]
        /\ UNCHANGED <<family, persons, addresses, employees, deleted,
                       threads>>

GetPaycheck ==
    \E paycheck_id \in PathIds :
        LET res == get_paycheck(paycheck_id) IN
        /\ family = "paychecks"
        /\ paychecks' = res.db
        /\ last' = Exchange(Request("get_paycheck", paycheck_id, None), res)
        /\ UNCHANGED <<family, persons, addresses, employees, uuids, created,
                       deleted,
                       threads>>

UpdatePaycheck ==
    \E paycheck_id \in PathIds, payload \in PaycheckUpdates :
        LET res == update_paycheck(paycheck_id, payload) IN
        /\ family = "paychecks"
        /\ paychecks' = res.db
        /\ last' = Exchange(Request("update_paycheck", paycheck_id, payload),
                            res)
        /\ UNCHANGED <<family, persons, addresses, employees, uuids, created,
                       deleted,
                       threads>>

DeletePaycheck ==
    \E paycheck_id \in PathIds :
        LET res == delete_paycheck(paycheck_id) IN
        /\ family = "paychecks"
        /\ paychecks' = res.db
        /\ last' = Exchange(Request("delete_paycheck", paycheck_id, None), res)
        /\ created' = [created EXCEPT
                         !.paychecks = Removed(@, paycheck_id, res)]
        /\ deleted' = [deleted EXCEPT
                         !.paychecks = Deleted(@, paycheck_id, res)]
        /\ UNCHANGED <<family, persons, addresses, employees, uuids,
                       threads>>

GetHealthNoPath ==
    \E echo \in Echoes, ip \in IpAddresses :
        LET res == get_health_no_path(echo, ip) IN
        /\ last' = Exchange(Request("get_health_no_path", None, echo), res)
        /\ UNCHANGED <<family, persons, addresses, employees, paychecks, uuids,
                       created, deleted,
                       threads>>

GetHealthWithPath ==
    \E path_echo \in PathEchoes, echo \in Echoes, ip \in IpAddresses :
        LET res == get_health_with_path(path_echo, echo, ip) IN
        /\ last' = Exchange(Request("get_health_with_path", path_echo, echo),
                            res)
        /\ UNCHANGED <<family, persons, addresses, employees, paychecks, uuids,
                       created, deleted,
                       threads>>

Root ==
    /\ last' = Exchange(Request("root", None, None), root)
    /\ UNCHANGED <<family, persons, addresses, employees, paychecks, uuids,
                   created, deleted,
                       threads>>

----------------------------------------------------------------------------
(* Handlers run by threadpool workers, a step per access to the store *)

Threads == 1..NumThreads

\* A worker: the handler it runs (op), the handler's arguments (id, body),
\* its local `stored`, where it is in the handler (pc) and, once the
\* handler has returned or raised, the HTTP status.
Idle ==
    [pc |-> "idle", op |-> None, id |-> None, body |-> None,
     stored |-> None, status |-> 0]
Running(op, id, body) ==
    [pc |-> "check", op |-> op, id |-> id, body |-> body,
     stored |-> None, status |-> 0]
At(t, op, pc) == threads[t].op = op /\ threads[t].pc = pc
Goto(t, pc) == [threads EXCEPT ![t].pc = pc]
Done(t, status) == [threads EXCEPT ![t].pc = "done", ![t].status = status]

\* Bodies of the PUT /employees/{id} requests run by workers: the ones a
\* handler running alone answers 200 for.
ConcurrentEmployeeUpdates ==
    {u \in EmployeeUpdates : \A f \in u.fields_set : u.data[f] # None}

\* A worker is handed POST /addresses.
BeginCreateAddress(t) ==
    \E address \in AddressCreates :
        /\ family = "addresses"
        /\ threads[t].pc = "idle"
        /\ threads' = [threads EXCEPT
                         ![t] = Running("create_address", address.id, address)]
        /\ UNCHANGED <<family, persons, addresses, employees, paychecks,
                       uuids, last, created, deleted>>

\* if address.id in addresses: raise HTTPException(400)
CreateAddressCheck(t) ==
    /\ At(t, "create_address", "check")
    /\ threads' = IF Has(addresses, threads[t].id)
                  THEN Done(t, 400)
                  ELSE Goto(t, "write")
    /\ UNCHANGED <<family, persons, addresses, employees, paychecks, uuids,
                   last, created, deleted>>

\* addresses[addr_read.id] = addr_read; return addr_read
CreateAddressWrite(t) ==
    /\ At(t, "create_address", "write")
    /\ LET addr_read == AddressRead(threads[t].body)
       IN  addresses' = SetItem(addresses, addr_read.id, addr_read)
    /\ threads' = Done(t, 201)
    /\ UNCHANGED <<family, persons, employees, paychecks, uuids, last,
                   created, deleted>>

\* A worker is handed PUT /employees/{employee_id}.
BeginUpdateEmployee(t) ==
    \E employee_id \in PathIds, payload \in ConcurrentEmployeeUpdates :
        /\ family = "employees"
        /\ threads[t].pc = "idle"
        /\ threads' = [threads EXCEPT
                         ![t] = Running("update_employee", employee_id,
                                        payload)]
        /\ UNCHANGED <<family, persons, addresses, employees, paychecks,
                       uuids, last, created, deleted>>

\* if employee_id not in employees: raise HTTPException(404)
UpdateEmployeeCheck(t) ==
    /\ At(t, "update_employee", "check")
    /\ threads' = IF ~Has(employees, threads[t].id)
                  THEN Done(t, 404)
                  ELSE Goto(t, "read")
    /\ UNCHANGED <<family, persons, addresses, employees, paychecks, uuids,
                   last, created, deleted>>

\* stored = employees[employee_id].model_dump(); stored.update(...)
\* employees[employee_id] raises KeyError when the key is gone: 500
UpdateEmployeeRead(t) ==
    /\ At(t, "update_employee", "read")
    /\ threads' =
         IF ~Has(employees, threads[t].id)
         THEN Done(t, 500)
         ELSE [threads EXCEPT
                 ![t].pc = "write",
                 ![t].stored =
                     DictUpdate(GetItem(employees, threads[t].id),
                                model_dump_exclude_unset(threads[t].body))]
    /\ UNCHANGED <<family, persons, addresses, employees, paychecks, uuids,
                   last, created, deleted>>

\* employees[employee_id] = EmployeeRead(**stored)
UpdateEmployeeWrite(t) ==
    /\ At(t, "update_employee", "write")
    /\ IF ~EmployeeReadValid(threads[t].stored)
       THEN /\ threads' = Done(t, 500)
            /\ UNCHANGED employees
       ELSE /\ employees' = SetItem(employees, threads[t].id,
                                    EmployeeRead(threads[t].stored))
            /\ threads' = Goto(t, "return")
    /\ UNCHANGED <<family, persons, addresses, paychecks, uuids, last,
                   created, deleted>>

\* return employees[employee_id]: KeyError when the key is gone: 500
UpdateEmployeeReturn(t) ==
    /\ At(t, "update_employee", "return")
    /\ threads' = IF ~Has(employees, threads[t].id)
                  THEN Done(t, 500)
                  ELSE Done(t, 200)
    /\ UNCHANGED <<family, persons, addresses, employees, paychecks, uuids,
                   last, created, deleted>>

\* A worker is handed DELETE /employees/{employee_id}.
BeginDeleteEmployee(t) ==
    \E employee_id \in PathIds :
        /\ family = "employees"
        /\ threads[t].pc = "idle"
        /\ threads' = [threads EXCEPT
                         ![t] = Running("delete_employee", employee_id, None)]
        /\ UNCHANGED <<family, persons, addresses, employees, paychecks,
                       uuids, last, created, deleted>>

\* if employee_id not in employees: raise HTTPException(404)
DeleteEmployeeCheck(t) ==
    /\ At(t, "delete_employee", "check")
    /\ threads' = IF ~Has(employees, threads[t].id)
                  THEN Done(t, 404)
                  ELSE Goto(t, "del")
    /\ UNCHANGED <<family, persons, addresses, employees, paychecks, uuids,
                   last, created, deleted>>

\* del employees[employee_id]: KeyError when the key is gone: 500
DeleteEmployeeDel(t) ==
    /\ At(t, "delete_employee", "del")
    /\ IF ~Has(employees, threads[t].id)
       THEN /\ threads' = Done(t, 500)
            /\ UNCHANGED employees
       ELSE /\ employees' = DelItem(employees, threads[t].id)
            /\ threads' = Done(t, 204)
    /\ UNCHANGED <<family, persons, addresses, paychecks, uuids, last,
                   created, deleted>>

----------------------------------------------------------------------------
(* The program *)

\* A session exercises one store: its own routes and, for paychecks, the
\* creation and deletion of the employees they refer to.
Families == {"addresses", "persons", "employees", "paychecks"}

NoExchange ==
    [op |-> "start", id |-> None, req |-> None, status |-> 0, body |-> NoBody]

Init ==
    /\ family \in Families
    /\ persons = EmptyDict
    /\ addresses = EmptyDict
    /\ employees = EmptyDict
    /\ paychecks = EmptyDict
    /\ uuids = 0
    /\ last = NoExchange
    /\ created = [persons |-> << >>, addresses |-> << >>,
                  employees |-> << >>, paychecks |-> << >>]
    /\ deleted = [employees |-> {}, paychecks |-> {}]
    /\ threads = [t \in Threads |-> Idle]

Next ==
    \/ CreateAddress
    \/ ListAddresses
    \/ GetAddress
    \/ UpdateAddress
    \/ CreatePerson
    \/ ListPersons
    \/ GetPerson
    \/ UpdatePerson
    \/ ListEmployees
    \/ CreateEmployee
    \/ GetEmployee
    \/ UpdateEmployee
    \/ DeleteEmployee
    \/ ListPaychecks
    \/ CreatePaycheck
    \/ GetPaycheck
    \/ UpdatePaycheck
    \/ DeletePaycheck
    \/ GetHealthNoPath
    \/ GetHealthWithPath
    \/ Root

Spec == Init /\ [][Next]_vars

\* Workers take requests while others are inside their handlers; the
\* employees the requests name are created by POST /employees.
InitConcurrent ==
    /\ Init
    /\ family \in {"addresses", "employees"}

NextConcurrent ==
    \/ CreateEmployee
    \/ \E t \in Threads :
          \/ BeginCreateAddress(t)
          \/ CreateAddressCheck(t)
          \/ CreateAddressWrite(t)
          \/ BeginUpdateEmployee(t)
          \/ UpdateEmployeeCheck(t)
          \/ UpdateEmployeeRead(t)
          \/ UpdateEmployeeWrite(t)
          \/ UpdateEmployeeReturn(t)
          \/ BeginDeleteEmployee(t)
          \/ DeleteEmployeeCheck(t)
          \/ DeleteEmployeeDel(t)

SpecConcurrent == InitConcurrent /\ [][NextConcurrent]_vars

----------------------------------------------------------------------------
(* Properties *)

CreateOps ==
    {"create_address", "create_person", "create_employee", "create_paycheck"}
UpdateOps ==
    {"update_address", "update_person", "update_employee", "update_paycheck"}
ListOps ==
    {"list_addresses", "list_persons", "list_employees", "list_paychecks"}

\* The store a route works on.
StoreOf(op) ==
    CASE op \in {"create_address", "list_addresses", "get_address",
                 "update_address"} -> addresses
      [] op \in {"create_person", "list_persons", "get_person",
                 "update_person"} -> persons
      [] op \in {"create_employee", "list_employees", "get_employee",
                 "update_employee", "delete_employee"} -> employees
      [] op \in {"create_paycheck", "list_paychecks", "get_paycheck",
                 "update_paycheck", "delete_paycheck"} -> paychecks
      [] OTHER -> EmptyDict

\* The same store after the step.
StoreAfter(op) ==
    CASE op \in {"create_address", "list_addresses", "get_address",
                 "update_address"} -> addresses'
      [] op \in {"create_person", "list_persons", "get_person",
                 "update_person"} -> persons'
      [] op \in {"create_employee", "list_employees", "get_employee",
                 "update_employee", "delete_employee"} -> employees'
      [] op \in {"create_paycheck", "list_paychecks", "get_paycheck",
                 "update_paycheck", "delete_paycheck"} -> paychecks'
      [] OTHER -> EmptyDict

\* d2 is d1 with exactly the entry of key k taken out.
Without(d1, k, d2) ==
    /\ KeySet(d2) = KeySet(d1) \ {k}
    /\ Len(d2) = Cardinality(KeySet(d2))
    /\ \A j \in KeySet(d2) : GetItem(d2, j) = GetItem(d1, j)

\* d2 is d1 with exactly one entry more, of a key d1 did not hold.
OneMore(d1, d2) ==
    /\ Len(d2) = Len(d1) + 1
    /\ ~Has(d1, d2[Len(d2)].k)
    /\ \A i \in 1..Len(d1) : d2[i] = d1[i]

\* C1: create_address with an id that is a key of addresses answers 400 and
\* leaves addresses as it was, whatever happened before.
C1_DuplicateAddressRejected ==
    [][(last'.op = "create_address" /\ Has(addresses, last'.id))
         => (last'.status = 400 /\ addresses' = addresses)]_vars

C1_Witness ==
    /\ last.op = "create_address"
    /\ last.status = 400
    /\ Len(addresses) = 2

\* C2: in each store a create answering 201 adds exactly one new key and
\* leaves the stored entries as they were, and a create that does not answer
\* 201 leaves the store as it was; a body whose id is a key of the store is
\* never answered 201.
C2_CreateNeverOverwrites ==
    [][last'.op \in CreateOps =>
         /\ IF last'.status = 201
            THEN OneMore(StoreOf(last'.op), StoreAfter(last'.op))
            ELSE StoreAfter(last'.op) = StoreOf(last'.op)
         /\ ("id" \in DOMAIN last'.req /\ Has(StoreOf(last'.op), last'.req.id))
              => last'.status # 201]_vars

\* The answer of the GET route of the store that `op` creates in.
GetAfter(op, id) ==
    CASE op = "create_address" -> get_address(id)
      [] op = "create_person" -> get_person(id)
      [] op = "create_employee" -> get_employee(id)
      [] op = "create_paycheck" -> get_paycheck(id)

\* C3: right after a create answered 201 with record r, the GET of r.id
\* answers 200 with r, in every store.
C3_RoundTrip ==
    (last.op \in CreateOps /\ last.status = 201) =>
        LET r == last.body[1]
            got == GetAfter(last.op, r.id)
        IN  got.status = 200 /\ got.body = <<r>>

C3_Witness ==
    /\ last.op = "create_employee"
    /\ last.status = 201
    /\ Len(employees) = 2

\* C4: an update of an id the store holds sets every field the body names to
\* the value it names, and leaves the other fields of the record and all the
\* other records as they were.
C4_UpdateSetsSuppliedFields ==
    [][(last'.op \in UpdateOps /\ Has(StoreOf(last'.op), last'.id)) =>
         LET old == StoreOf(last'.op)
             new == StoreAfter(last'.op)
             u == last'.req
         IN  /\ Keys(new) = Keys(old)
             /\ \A k \in KeySet(old) \ {last'.id} :
                    GetItem(new, k) = GetItem(old, k)
             /\ \A f \in DOMAIN GetItem(old, last'.id) :
                    GetItem(new, last'.id)[f] =
                        IF f \in u.fields_set THEN u.data[f]
                        ELSE GetItem(old, last'.id)[f]]_vars

\* C5: an update of an id the store does not hold answers 404 and leaves the
\* store as it was.
C5_UpdateAbsentIs404 ==
    [][(last'.op \in UpdateOps /\ ~Has(StoreOf(last'.op), last'.id)) =>
         (last'.status = 404 /\ StoreAfter(last'.op) = StoreOf(last'.op))]_vars

C5_Witness ==
    /\ last.op = "update_paycheck"
    /\ last.status = 404
    /\ Len(paychecks) = 1
    /\ last.req.fields_set # {}

\* C6: once DELETE of an employee or paycheck id answered 204, the GET of
\* that id answers 404 in every later state.
C6_DeletedStaysGone ==
    /\ \A id \in deleted.employees : get_employee(id).status = 404
    /\ \A id \in deleted.paychecks : get_paycheck(id).status = 404

\* An employee id was deleted, two employees were created since (the store
\* holds MaxRecords at most), and the deleted id is asked for.
C6_Witness ==
    /\ last.op = "get_employee"
    /\ last.id \in deleted.employees
    /\ last.status = 404
    /\ Len(employees) = MaxRecords

\* C7: DELETE of an id the store holds takes out exactly that entry; DELETE
\* of an id it does not hold answers 404 and leaves the store as it was.
C7_DeleteFrame ==
    [][last'.op \in {"delete_employee", "delete_paycheck"} =>
         IF Has(StoreOf(last'.op), last'.id)
         THEN /\ last'.status = 204
              /\ Without(StoreOf(last'.op), last'.id, StoreAfter(last'.op))
         ELSE /\ last'.status = 404
              /\ StoreAfter(last'.op) = StoreOf(last'.op)]_vars

C7_Witness ==
    /\ last.op = "delete_employee"
    /\ last.status = 204
    /\ Len(employees) = 1

\* Whether address a passes every filter the query q supplies.
AddressMatches(a, q) == \A f \in DOMAIN q : q[f] # None => a[f] = q[f]
\* Whether person p passes every filter the query q supplies.
PersonMatches(p, q) ==
    /\ \A f \in {"uni", "first_name", "last_name", "email", "phone"} :
           q[f] # None => p[f] = q[f]
    /\ q.birth_date # None => DateStr(p.birth_date) = q.birth_date
    /\ \A f \in {"city", "country"} :
           q[f] # None => \E i \in 1..Len(p.addresses) :
                              p.addresses[i][f] = q[f]
Matches(op, r, q) ==
    CASE op = "list_addresses" -> AddressMatches(r, q)
      [] op = "list_persons" -> PersonMatches(r, q)
      [] OTHER -> TRUE
RangeOf(seq) == {seq[i] : i \in 1..Len(seq)}

\* C8: a list answers with exactly the stored records that pass every filter
\* supplied, each once; with no filter, with every stored record.
C8_ListExact ==
    last.op \in ListOps =>
        LET want == {r \in RangeOf(Values(StoreOf(last.op))) :
                         Matches(last.op, r, last.req)}
        IN  /\ last.status = 200
            /\ RangeOf(last.body) = want
            /\ Len(last.body) = Cardinality(want)

\* Two filters are supplied; one stored address passes both, one does not.
C8_Witness ==
    /\ last.op = "list_addresses"
    /\ last.req.city # None
    /\ last.req.country # None
    /\ Len(last.body) = 1
    /\ Len(addresses) = 2

\* The place of id in the sequence ids.
IndexOf(ids, id) == CHOOSE i \in 1..Len(ids) : ids[i] = id

\* The creation history of the store a list route reads.
CreatedOf(op) ==
    CASE op = "list_addresses" -> created.addresses
      [] op = "list_persons" -> created.persons
      [] op = "list_employees" -> created.employees
      [] op = "list_paychecks" -> created.paychecks

\* C9: every store holds its keys in the order they were created, an update
\* leaving each where it was, and a list answers in that order.
C9_CreationOrder ==
    /\ Keys(addresses) = created.addresses
    /\ Keys(persons) = created.persons
    /\ Keys(employees) = created.employees
    /\ Keys(paychecks) = created.paychecks
    /\ last.op \in ListOps =>
           \A i, j \in 1..Len(last.body) :
               i < j => IndexOf(CreatedOf(last.op), last.body[i].id)
                          < IndexOf(CreatedOf(last.op), last.body[j].id)

\* The employee created first was updated since, and is still listed first.
C9_Witness ==
    /\ last.op = "list_employees"
    /\ Len(last.body) = 2
    /\ last.body[1].id = created.employees[1]
    /\ last.body[1].name = "Alice"
    /\ last.body[1].position = "Manager"

\* C10: create_paycheck answers 400 and stores nothing when employee_id is
\* not a key of employees; else it answers 201 and stores the paycheck under
\* an id that was never seen before.
C10_PaycheckNeedsEmployee ==
    [][last'.op = "create_paycheck" =>
         IF Has(employees, last'.req.employee_id)
         THEN /\ last'.status = 201
              /\ last'.body[1].id \notin KnownIds
              /\ OneMore(paychecks, paychecks')
              /\ paychecks'[Len(paychecks')] =
                     Entry(last'.body[1].id, last'.body[1])
              /\ \A f \in DOMAIN last'.req :
                     last'.body[1][f] = last'.req[f]
         ELSE /\ last'.status = 400
              /\ paychecks' = paychecks]_vars

\* A paycheck exists, and a second one naming an unknown employee is refused.
C10_Witness ==
    /\ last.op = "create_paycheck"
    /\ last.status = 400
    /\ Len(paychecks) = 1

\* A record without its id.
NonId(r) == [f \in DOMAIN r \ {"id"} |-> r[f]]

\* C11: a PUT on an id the store holds leaves a record whose fields other
\* than id are given by the body alone: the same body put on two stored
\* records leaves the same fields, whatever the records held before.
C11_ReplaceOverwrites ==
    /\ \A u \in EmployeeUpdates : \A k1, k2 \in KeySet(employees) :
           NonId(GetItem(update_employee(k1, u).db, k1)) =
               NonId(GetItem(update_employee(k2, u).db, k2))
    /\ \A u \in PaycheckUpdates : \A k1, k2 \in KeySet(paychecks) :
           NonId(GetItem(update_paycheck(k1, u).db, k1)) =
               NonId(GetItem(update_paycheck(k2, u).db, k2))

\* C12: every call ends in success (200, 201, 204) or in 400 or 404, and a
\* call that does not succeed leaves the four stores as they were.
C12_OnlyConflictOrNotFound ==
    [][\/ last'.status \in {200, 201, 204}
       \/ /\ last'.status \in {400, 404}
          /\ UNCHANGED <<persons, addresses, employees, paychecks>>]_vars

\* Whether every paycheck of pcs names an employee that is a key of emps.
Referenced(emps, pcs) ==
    \A i \in 1..Len(pcs) : Has(emps, pcs[i].v.employee_id)

\* C15: in every reachable state every stored paycheck has an employee_id
\* that is a key of employees.
C15_ReferentialIntegrity ==
    \A i \in 1..Len(paychecks) : Has(employees, paychecks[i].v.employee_id)

\* C15, as amended: every operation other than delete_employee and an
\* update_paycheck whose body names employee_id keeps every paycheck's
\* employee_id a key of employees; so a paycheck names a present employee
\* when create_paycheck stores it.
C15_IntegrityPreserved ==
    [][(/\ Referenced(employees, paychecks)
        /\ last'.op # "delete_employee"
        /\ ~(/\ last'.op = "update_paycheck"
             /\ "employee_id" \in last'.req.fields_set))
         => Referenced(employees', paychecks')]_vars

\* A paycheck of a present employee was updated without naming employee_id.
C15_Witness ==
    /\ last.op = "update_paycheck"
    /\ last.status = 200
    /\ last.req.fields_set = {"amount"}
    /\ Referenced(employees, paychecks)

\* C16: every record of employees and of paychecks is stored under its own
\* id.
C16_KeyIsId ==
    /\ \A i \in 1..Len(employees) : employees[i].v.id = employees[i].k
    /\ \A i \in 1..Len(paychecks) : paychecks[i].v.id = paychecks[i].k

\* Two employees are stored and one of them was just updated.
C16_Witness ==
    /\ last.op = "update_employee"
    /\ last.status = 200
    /\ last.req.fields_set # {}
    /\ Len(employees) = 2

\* C18: an update repeated right after itself leaves the store as the first
\* one left it and answers as the first one did; an update with an empty
\* body leaves the store as it was.
C18_UpdateIdempotent ==
    [][last'.op \in UpdateOps =>
         /\ (last.op = last'.op /\ last.id = last'.id /\ last.req = last'.req)
              => /\ StoreAfter(last'.op) = StoreOf(last'.op)
                 /\ last'.status = last.status
                 /\ last'.body = last.body
         /\ last'.req.fields_set = {}
              => StoreAfter(last'.op) = StoreOf(last'.op)]_vars

\* An update that changed the record it names has just been answered.
C18_Witness ==
    /\ last.op = "update_person"
    /\ last.status = 200
    /\ "addresses" \in last.req.fields_set
    /\ Len(persons) = 2

ReadOps ==
    ListOps \cup {"get_address", "get_person", "get_employee", "get_paycheck",
                  "root", "get_health_no_path", "get_health_with_path"}
HealthOps == {"get_health_no_path", "get_health_with_path"}

\* C17: every get by id, every list, the root route and both health routes
\* leave the four stores as they were; a health response has status 200
\* and carries the echo and the path segment of its request, the path
\* segment being None on the route without one.
C17_ReadsHaveNoEffect ==
    [][last'.op \in ReadOps =>
         /\ UNCHANGED <<persons, addresses, employees, paychecks>>
         /\ last'.op \in HealthOps =>
              /\ last'.status = 200
              /\ last'.body[1].status = 200
              /\ last'.body[1].echo = last'.req
              /\ last'.body[1].path_echo = last'.id
         /\ last'.op = "get_health_no_path" => last'.id = None]_vars

\* A health request with both an echo and a path segment has been answered
\* while a store holds records.
C17_Witness ==
    /\ last.op = "get_health_with_path"
    /\ last.req = "hello"
    /\ last.body[1].path_echo = "ping"
    /\ Len(employees) = 2

Finished(t, op) == threads[t].pc = "done" /\ threads[t].op = op

\* C13: of two create_address requests with the same id run by different
\* workers, each ends with 201 or 400 and at most one with 201.
C13_CreateAddressAtomic ==
    \A t1, t2 \in Threads :
        (/\ t1 # t2
         /\ Finished(t1, "create_address")
         /\ Finished(t2, "create_address")
         /\ threads[t1].id = threads[t2].id)
            => /\ {threads[t1].status, threads[t2].status} \subseteq {201, 400}
               /\ ~(threads[t1].status = 201 /\ threads[t2].status = 201)

\* C14: every update_employee and delete_employee run by a worker ends with
\* 200, 204 or 404, and an id whose delete_employee has ended with 204 is
\* not a key of employees.
C14_DeleteUpdateRace ==
    \A t \in Threads :
        /\ (threads[t].pc = "done"
              /\ threads[t].op \in {"update_employee", "delete_employee"})
             => threads[t].status \in {200, 204, 404}
        /\ (Finished(t, "delete_employee") /\ threads[t].status = 204)
             => ~Has(employees, threads[t].id)

====
